---- MODULE Spec2Model ----
(***************************************************************************)
(* Model of src/index.js (first program of the file, lines 1-1194): an     *)
(* Express application that logs every HTTP request to a SQLite table,     *)
(* accepts client logs (POST /api/logs), serves a query (GET /api/logs),   *)
(* a purge (DELETE /api/logs) and WebSocket fingerprint messages.          *)
(*                                                                         *)
(* JavaScript handlers run to completion on the event loop, so one action  *)
(* is one handler.  node-sqlite3 statements issued outside db.serialize    *)
(* run in parallel mode: each db.run / db.all is handed to the thread pool *)
(* and the order in which the pool executes them is not fixed by the       *)
(* program, so the model keeps the issued statements in a set and lets     *)
(* DbExec take any of them.                                                *)
(***************************************************************************)
EXTENDS Integers, Sequences, FiniteSets, TLC

\* ------------------------------------------------------------------ bounds
MaxEvents == 2    \* HTTP requests and WebSocket messages in one behaviour
MaxClock == 1     \* last value of the wall clock (it starts at 0)
MaxFail == 1      \* storage calls that fail in one behaviour

\* ------------------------------------------------------- JavaScript values
\* A JavaScript value is a tagged record, so that a string, null, undefined
\* and an object can be told apart the way typeof / === tell them apart.
Str(s) == [t |-> "string", v |-> s]
Null == [t |-> "null", v |-> ""]
Undef == [t |-> "undefined", v |-> ""]
Obj(f) == [t |-> "object", v |-> f]
Num(n) == [t |-> "number", v |-> n]
NaN == [t |-> "NaN", v |-> 0]
Bool(b) == [t |-> "boolean", v |-> b]

EmptyFn == [k \in {} |-> Undef]

\* o.k for an object o: undefined when the key is missing
Get(o, k) == IF k \in DOMAIN o.v THEN o.v[k] ELSE Undef

\* the truthiness test of `x ? a : b`, `x || y` and `if (x)`
Truthy(x) ==
  CASE x.t = "string" -> x.v # ""
    [] x.t = "number" -> x.v # 0
    [] x.t = "object" -> TRUE
    [] x.t = "boolean" -> x.v
    [] OTHER -> FALSE

\* Property names the model uses, in the order objects enumerate them.
KeyOrder == <<"host", "content-type", "success", "type", "message", "data",
              "timestamp", "origin", "userAgent", "error">>

\* --------------------------------------------------------------- JSON text
\* A text is the sequence of its tokens; separators (comma, colon, blanks)
\* are left out.  '' is <<>>, '{}' is <<"{", "}">>, '"x"' is <<Q, "x", Q>>.
Q == "\""

RECURSIVE JSONstringify(_)
RECURSIVE StringifyMembers(_, _)

\* members of object function f from position i of KeyOrder on; a member
\* whose value is undefined is skipped, as JSON.stringify does
StringifyMembers(f, i) ==
  IF i > Len(KeyOrder) THEN <<>>
  ELSE LET k == KeyOrder[i] IN
       IF k \in DOMAIN f /\ f[k].t # "undefined"
       THEN <<Q, k, Q>> \o JSONstringify(f[k]) \o StringifyMembers(f, i + 1)
       ELSE StringifyMembers(f, i + 1)

JSONstringify(x) ==
  CASE x.t = "string" -> <<Q, x.v, Q>>
    [] x.t = "null" -> <<"null">>
    [] x.t = "NaN" -> <<"null">>
    [] x.t = "boolean" -> IF x.v THEN <<"true">> ELSE <<"false">>
    [] x.t = "object" -> <<"{">> \o StringifyMembers(x.v, 1) \o <<"}">>
    [] OTHER -> <<>>

ParseFail == [ok |-> FALSE, val |-> Undef, next |-> 0]

RECURSIVE ParseValue(_, _)
RECURSIVE ParseMembers(_, _, _)

\* result of reading one value that starts at token i
ParseValue(txt, i) ==
  IF i > Len(txt) THEN ParseFail
  ELSE CASE txt[i] = Q ->
              IF i + 2 <= Len(txt) /\ txt[i + 2] = Q
              THEN [ok |-> TRUE, val |-> Str(txt[i + 1]), next |-> i + 3]
              ELSE ParseFail
         [] txt[i] = "null" -> [ok |-> TRUE, val |-> Null, next |-> i + 1]
         [] txt[i] = "true" -> [ok |-> TRUE, val |-> Bool(TRUE), next |-> i + 1]
         [] txt[i] = "false" -> [ok |-> TRUE, val |-> Bool(FALSE), next |-> i + 1]
         [] txt[i] = "{" -> ParseMembers(txt, i + 1, EmptyFn)
         [] OTHER -> ParseFail

ParseMembers(txt, i, acc) ==
  IF i > Len(txt) THEN ParseFail
  ELSE IF txt[i] = "}" THEN [ok |-> TRUE, val |-> Obj(acc), next |-> i + 1]
  ELSE IF ~(txt[i] = Q /\ i + 2 <= Len(txt) /\ txt[i + 2] = Q) THEN ParseFail
  ELSE LET k == txt[i + 1]
           m == ParseValue(txt, i + 3)
       IN IF ~m.ok THEN ParseFail
          ELSE ParseMembers(txt, m.next,
                 [x \in (DOMAIN acc) \cup {k} |->
                    IF x = k THEN m.val ELSE acc[x]])

\* JSON.parse: ok is FALSE where JSON.parse throws a SyntaxError
JSONparse(txt) ==
  LET p == ParseValue(txt, 1)
  IN IF p.ok /\ p.next = Len(txt) + 1 THEN p ELSE ParseFail

\* -------------------------------------------------------------- timestamps
\* new Date().toISOString() at each value of the clock.
IsoStrings == <<"2026-01-01T00:00:00.000Z", "2026-01-01T00:00:01.000Z",
                "2026-01-01T00:00:02.000Z", "2026-01-01T00:00:03.000Z">>

toISOString(c) == IsoStrings[c + 1]

\* The strings that occur as timestamps or as startTime, listed in the
\* order in which SQLite's BINARY collation (memcmp) sorts them.
TextOrder == <<"", "2025-12-31T23:59:59.000Z",
               "2026-01-01T00:00:00.000Z", "2026-01-01T00:00:01.000Z",
               "2026-01-01T00:00:02.000Z", "2026-01-01T00:00:03.000Z",
               "yesterday">>

Rank(s) == CHOOSE i \in 1..Len(TextOrder) : TextOrder[i] = s

\* a <= b for TEXT values
TextLeq(a, b) == Rank(a) <= Rank(b)

\* ------------------------------------------------------------ SQLite store
\* What a column holds when the bound parameter was undefined or null.
SqlNull == "<SQL NULL>"

\* node-sqlite3 binds a JavaScript string as TEXT and leaves an undefined
\* parameter unbound, which SQLite reads as NULL.
BindParameter(x) == IF x.t = "string" THEN x.v ELSE SqlNull

\* (variant: a plain INTEGER PRIMARY KEY, one more than the largest rowid left)
MutRowidOfTable(s, rs) == IF rs = <<>> THEN 1 ELSE rs[Len(rs)].id + 1

\* id INTEGER PRIMARY KEY AUTOINCREMENT: one more than the largest id the
\* table has ever held (sqlite_sequence s), whatever rows rs are left in it.
AutoIncrement(s, rs) == s + 1

\* (variant: the WHERE clause left out)
MutWhereNoFilter(ts, start) == TRUE

\* WHERE timestamp >= ?   (a NULL on either side never matches)
WhereTimestampGeq(ts, start) ==
  ts # SqlNull /\ start # SqlNull /\ TextLeq(start, ts)

\* (variant: INSERT OR REPLACE with url as a key, which rewrites an older row)
MutInsertOrReplace(rs, id, row) ==
  Append(SelectSeq(rs, LAMBDA r : r.url # row.url),
         [id |-> id] @@ row)

\* INSERT INTO logs(method,url,headers,body,timestamp) VALUES(?,?,?,?,?):
\* one new row with the given id, the other rows untouched
InsertRow(rs, id, row) == Append(rs, [id |-> id] @@ row)

\* (variant: the delete starts the ids over)
MutDeleteResetsSequence(s) == 0

\* sqlite_sequence after DELETE FROM logs: the delete does not touch it
SequenceAfterDelete(s) == s

\* (variant: a delete that spares the newest row)
MutDeleteKeepsNewest(rs) == IF rs = <<>> THEN <<>> ELSE <<rs[Len(rs)]>>

\* DELETE FROM logs
DeleteFromLogs(rs) == <<>>

Range(s) == {s[i] : i \in 1..Len(s)}

MaxTs(S) == {r \in S : \A o \in S : TextLeq(o.timestamp, r.timestamp)}

\* (variant: rows with the same timestamp come in any order, as they could
\* from an index on timestamp or a reversed scan)
RECURSIVE MutOrderTiesAnyOrder(_)
MutOrderTiesAnyOrder(S) ==
  IF S = {} THEN {<<>>}
  ELSE UNION {{<<r>> \o rest : rest \in MutOrderTiesAnyOrder(S \ {r})} :
              r \in MaxTs(S)}

\* ORDER BY timestamp DESC on table logs, which has no index on timestamp:
\* SQLite scans the table in rowid order and its sorter keeps rows with
\* equal keys in scan order, so rows with the same timestamp come in
\* ascending id.  The result is one sequence (kept as a set of one).
RECURSIVE OrderByTimestampDesc(_)
OrderByTimestampDesc(S) ==
  IF S = {} THEN {<<>>}
  ELSE LET r == CHOOSE x \in MaxTs(S) : \A o \in MaxTs(S) : x.id <= o.id
       IN {<<r>> \o rest : rest \in OrderByTimestampDesc(S \ {r})}

\* LIMIT ?: a negative limit is no limit in SQLite
Limit(s, n) == IF n < 0 \/ n >= Len(s) THEN s ELSE SubSeq(s, 1, n)

\* (variant: a read that overlaps a running purge and misses the oldest row)
MutSelectPartlyPurged(rs, hasStart, start, hasLimit, limit) ==
  LET hit == {r \in Range(IF rs = <<>> THEN rs ELSE Tail(rs)) :
                 hasStart => WhereTimestampGeq(r.timestamp, start)}
  IN {IF hasLimit THEN Limit(s, limit) ELSE s : s \in OrderByTimestampDesc(hit)}

\* the results SELECT * FROM logs [WHERE timestamp >= ?]
\* ORDER BY timestamp DESC [LIMIT ?] can give on table rs
SelectLogs(rs, hasStart, start, hasLimit, limit) ==
  LET hit == {r \in Range(rs) :
                 hasStart => WhereTimestampGeq(r.timestamp, start)}
  IN {IF hasLimit THEN Limit(s, limit) ELSE s : s \in OrderByTimestampDesc(hit)}

\* ------------------------------------------------------------------- state
VARIABLES
  clock,      \* the wall clock read by new Date()
  alive,      \* the Node process is running
  rows,       \* table logs, in rowid order
  seq,        \* sqlite_sequence: the largest id the table ever assigned
  pending,    \* statements issued by db.run / db.all, not yet executed
  completed,  \* executed statements whose callback has not run yet
  issued,     \* history: every statement issued, in issue order
  accepted,   \* history: every insert the store applied, in that order
  executed,   \* history: issue numbers of the statements, in execution order
  purged,     \* history: value of seq at the last executed DELETE
  failed,     \* history: issue numbers of the statements that failed
  reqs,       \* HTTP requests received, with their responses
  conns,      \* WebSocket connections
  msgs        \* history: WebSocket messages handled

vars == <<clock, alive, rows, seq, pending, completed, issued, accepted, executed,
          purged, failed, reqs, conns, msgs>>

Conns == {1}

NoRow == [method |-> "", url |-> "", headers |-> <<>>, body |-> <<>>,
          timestamp |-> ""]

\* the statement of an `INSERT INTO logs(method,url,headers,body,timestamp)`
InsertStmt(src, method, url, headers, body, timestamp) ==
  [kind |-> "insert", src |-> src, cb |-> FALSE,
   row |-> [method |-> method, url |-> url, headers |-> headers,
            body |-> body, timestamp |-> timestamp],
   hasStart |-> FALSE, start |-> "", hasLimit |-> FALSE, limit |-> 0]

SelectStmt(src, hasStart, start, hasLimit, limit) ==
  [kind |-> "select", src |-> src, cb |-> TRUE, row |-> NoRow,
   hasStart |-> hasStart, start |-> start,
   hasLimit |-> hasLimit, limit |-> limit]

DeleteStmt(src) ==
  [kind |-> "delete", src |-> src, cb |-> TRUE, row |-> NoRow,
   hasStart |-> FALSE, start |-> "", hasLimit |-> FALSE, limit |-> 0]

\* issue statements ss (in order) to the database: each gets its issue number
Numbered(ss) == [i \in 1..Len(ss) |-> [k |-> Len(issued) + i] @@ ss[i]]

DbIssue(ss) ==
  /\ pending' = pending \cup Range(Numbered(ss))
  /\ issued' = issued \o Numbered(ss)

Init ==
  /\ clock = 0
  /\ alive = TRUE
  /\ rows = <<>>
  /\ seq = 0
  /\ pending = {}
  /\ completed = {}
  /\ issued = <<>>
  /\ accepted = <<>>
  /\ executed = <<>>
  /\ purged = 0
  /\ failed = {}
  /\ reqs = <<>>
  /\ conns = [c \in Conns |-> "idle"]
  /\ msgs = <<>>

\* ------------------------------------------------------------ HTTP inputs
T1 == toISOString(1)

PageUrls == {"/"}

QueryUrls == {"/api/logs", "/api/logs?limit=0", "/api/logs?limit=1",
              "/api/logs?limit=abc",
              "/api/logs?startTime=2026-01-01T00:00:01.000Z",
              "/api/logs?limit=1&startTime=2026-01-01T00:00:01.000Z",
              "/api/logs?limit=0&startTime=2026-01-01T00:00:01.000Z"}

\* req.query of Express for the URLs above
ReqQuery(url) ==
  CASE url = "/api/logs?limit=0" -> [limit |-> Str("0"), startTime |-> Undef]
    [] url = "/api/logs?limit=1" -> [limit |-> Str("1"), startTime |-> Undef]
    [] url = "/api/logs?limit=-1" -> [limit |-> Str("-1"), startTime |-> Undef]
    [] url = "/api/logs?limit=abc" -> [limit |-> Str("abc"), startTime |-> Undef]
    [] url = "/api/logs?startTime=2026-01-01T00:00:01.000Z" ->
         [limit |-> Undef, startTime |-> Str(T1)]
    [] url = "/api/logs?limit=1&startTime=2026-01-01T00:00:01.000Z" ->
         [limit |-> Str("1"), startTime |-> Str(T1)]
    [] url = "/api/logs?limit=0&startTime=2026-01-01T00:00:01.000Z" ->
         [limit |-> Str("0"), startTime |-> Str(T1)]
    [] OTHER -> [limit |-> Undef, startTime |-> Undef]

\* parseInt on the limit strings above
parseInt(x) ==
  CASE x.v = "0" -> Num(0)
    [] x.v = "1" -> Num(1)
    [] x.v = "2" -> Num(2)
    [] x.v = "-1" -> Num(0 - 1)
    [] OTHER -> NaN

\* the objects a client posts to /api/logs: {type, message, data?, timestamp?}
ClientLogs ==
  {Obj([type |-> Str("warning"), message |-> Str("x"), data |-> d,
        timestamp |-> ts]) :
     d \in {Undef, Null, Str("d")},
     ts \in {Undef, Str("2025-12-31T23:59:59.000Z"), Str("yesterday")}}

\* request bodies of POST /api/logs as sent: the client's JSON.stringify of
\* its object, and one text that is not JSON
PostBodies == {JSONstringify(o) : o \in ClientLogs} \cup {<<"{", Q>>}

HeadersOf(hasBody) ==
  IF hasBody
  THEN Obj(("host" :> Str("localhost")) @@
           ("content-type" :> Str("application/json")))
  ELSE Obj("host" :> Str("localhost"))

\* ---------------------------------------------------------- HTTP handlers
\* app.use(express.json()): no body gives {}, a JSON object is parsed, any
\* other text makes the parser call next(err), which skips every later
\* middleware and route and ends in Express's 400 response.
ExpressJson(raw) ==
  IF raw = <<>> THEN [ok |-> TRUE, val |-> Obj(EmptyFn), next |-> 0]
  ELSE LET p == JSONparse(raw)
       IN IF p.ok /\ p.val.t = "object" THEN p ELSE ParseFail

\* the entry of reqs for a request that has just arrived (at: the clock as
\* the middleware read it; at2: the clock as the route handler read it, if
\* it did; seen0 and floor0: the inserts the store had accepted, and the
\* last purge, at that moment)
Received(method, url, raw, now) ==
  [method |-> method, url |-> url, raw |-> raw, at |-> now, at2 |-> now,
   state |-> "waiting", status |-> 0, json |-> "", rows |-> <<>>,
   body |-> <<>>, floor |-> 0, seen |-> 0,
   seen0 |-> Len(accepted), floor0 |-> purged,
   afterPurge |-> \E i \in 1..Len(reqs) :
                     reqs[i].method = "DELETE" /\ reqs[i].status = 200]

Answered(r, status, json, rs) ==
  [r EXCEPT !.state = "done", !.status = status, !.json = json, !.rows = rs]

\* res.status(a.status).json(...): the response a, whose body is the JSON
\* text of the object handed to res.json (rows are kept as records)
Respond(r, a) == [Answered(r, a.status, a.json, a.rows) EXCEPT !.body = a.body]

\* (variant: a failed query answers like a query that matched nothing)
MutQueryAnswerMasksError(err, rs) ==
  [status |-> 200, json |-> "rows", rows |-> IF err THEN <<>> ELSE rs,
   body |-> <<>>]

\* the callback of db.all in app.get('/api/logs')
QueryAnswer(err, rs) ==
  IF err
  THEN [status |-> 500, json |-> "error", rows |-> <<>>,
        body |-> JSONstringify(Obj([error |-> Str("Failed to fetch logs")]))]
  ELSE [status |-> 200, json |-> "rows", rows |-> rs, body |-> <<>>]

\* (variant: the handler answers that the write failed)
MutPostAnswerFailure(body) ==
  [status |-> 500, json |-> "error", rows |-> <<>>,
   body |-> JSONstringify(Obj([success |-> Bool(FALSE),
                               error |-> Str("Failed to write log")]))]

\* res.json({ success: true }) of app.post('/api/logs'), whatever the body
PostAnswer(body) ==
  [status |-> 200, json |-> "success", rows |-> <<>>,
   body |-> JSONstringify(Obj([success |-> Bool(TRUE)]))]

\* (variant: a failed delete is answered like a delete that succeeded)
MutPurgeAnswerIgnoresError(err) ==
  [status |-> 200, json |-> "success", rows |-> <<>>,
   body |-> JSONstringify(Obj([success |-> Bool(TRUE),
                               message |-> Str("Database cleared successfully")]))]

\* the callback of db.run('DELETE FROM logs') in app.delete('/api/logs')
PurgeAnswer(err) ==
  IF err
  THEN [status |-> 500, json |-> "error", rows |-> <<>>,
        body |-> JSONstringify(Obj([error |-> Str("Failed to clear database")]))]
  ELSE [status |-> 200, json |-> "success", rows |-> <<>>,
        body |-> JSONstringify(Obj([success |-> Bool(TRUE),
                                    message |-> Str("Database cleared successfully")]))]

HttpSrc(i) == <<"http", i>>
WsSrc(i) == <<"ws", i>>

\* (variant: the body is never serialized)
MutBodyStrAlwaysEmpty(body) == <<>>

\* bodyStr of the middleware
BodyStr(body) ==
  IF Truthy(body) /\ Cardinality(DOMAIN body.v) # 0
  THEN JSONstringify(body) ELSE <<>>

\* the request-logging middleware: the INSERT it issues before next()
Middleware(src, method, url, headers, body, now) ==
  InsertStmt(src, BindParameter(Str(method)), BindParameter(Str(url)),
             JSONstringify(headers), BodyStr(body), toISOString(now))

\* (variant: a missing data defaults to {})
MutLogDataDefaultsData(body) ==
  JSONstringify(Obj([message |-> Get(body, "message"),
                     data |-> IF Get(body, "data").t = "undefined"
                              THEN Obj(EmptyFn) ELSE Get(body, "data"),
                     timestamp |-> Get(body, "timestamp")]))

\* (variant: the envelope is the whole request body)
MutLogDataWholeBody(body) == JSONstringify(body)

\* logData of app.post('/api/logs')
LogData(body) ==
  JSONstringify(Obj([message |-> Get(body, "message"),
                     data |-> Get(body, "data"),
                     timestamp |-> Get(body, "timestamp")]))

\* `timestamp || new Date().toISOString()`: the route handler reads the
\* clock itself only when the body has no truthy timestamp
ReadsClockAgain(body) == ~Truthy(Get(body, "timestamp"))

\* the INSERT of app.post('/api/logs'), now being the route handler's own
\* reading of the clock
ClientLogInsert(src, body, now) ==
  InsertStmt(src, "CLIENT_LOG", "/api/logs", JSONstringify(Obj(EmptyFn)),
             LogData(body),
             BindParameter(IF Truthy(Get(body, "timestamp"))
                           THEN Get(body, "timestamp")
                           ELSE Str(toISOString(now))))

\* (variant: a limit that is absent or not a number becomes a cap of 1)
MutQueryLimitDefaultsToOne(url) ==
  IF Truthy(ReqQuery(url).limit) /\ parseInt(ReqQuery(url).limit).t = "number"
  THEN parseInt(ReqQuery(url).limit) ELSE Num(1)

\* limit of app.get('/api/logs')
QueryLimit(url) ==
  IF Truthy(ReqQuery(url).limit) THEN parseInt(ReqQuery(url).limit) ELSE Null

\* the SELECT of app.get('/api/logs')
QuerySelect(src, url) ==
  SelectStmt(src,
             Truthy(ReqQuery(url).startTime),
             BindParameter(ReqQuery(url).startTime),
             Truthy(QueryLimit(url)),
             IF Truthy(QueryLimit(url)) THEN QueryLimit(url).v ELSE 0)

\* (variant: the middleware calls next() first and writes its record after)
MutNextBeforeWrite(mw, route) == route \o <<mw>>

\* the statements of one request in the order of their issue: the middleware
\* calls db.run and then next(), which runs the route handler
HandlerChain(mw, route) == <<mw>> \o route

HttpFrame == UNCHANGED <<alive, rows, seq, completed, accepted, executed,
                         purged, failed, conns, msgs>>

\* GET / and GET /login: middleware, then res.send(html)
GetPage(url, now) ==
  /\ alive /\ clock' = now /\ Len(reqs) + Len(msgs) < MaxEvents
  /\ LET i == Len(reqs) + 1 IN
     /\ DbIssue(HandlerChain(Middleware(HttpSrc(i), "GET", url, HeadersOf(FALSE),
                                         ExpressJson(<<>>).val, now), <<>>))
     /\ reqs' = Append(reqs, Answered(Received("GET", url, <<>>, now), 200, "html", <<>>))
  /\ HttpFrame

\* GET /api/logs: middleware, then db.all whose callback answers
GetLogs(url, now) ==
  /\ alive /\ clock' = now /\ Len(reqs) + Len(msgs) < MaxEvents
  /\ LET i == Len(reqs) + 1 IN
     /\ DbIssue(HandlerChain(Middleware(HttpSrc(i), "GET", url, HeadersOf(FALSE),
                                         ExpressJson(<<>>).val, now),
                              <<QuerySelect(HttpSrc(i), url)>>))
     /\ reqs' = Append(reqs, Received("GET", url, <<>>, now))
  /\ HttpFrame

\* POST /api/logs: express.json(), middleware, INSERT, res.json({success}).
\* The middleware reads the clock (now); the route handler reads it again
\* (later, which may be a later value) when the body has no timestamp.
PostLogs(raw, now, later) ==
  /\ alive /\ clock' = later /\ Len(reqs) + Len(msgs) < MaxEvents
  /\ LET i == Len(reqs) + 1
         parsed == ExpressJson(raw)
     IN IF ~parsed.ok
        THEN /\ later = now
             /\ reqs' = Append(reqs, Answered(Received("POST", "/api/logs", raw, now),
                                               400, "error", <<>>))
             /\ UNCHANGED <<pending, issued>>
        ELSE /\ ReadsClockAgain(parsed.val) \/ later = now
             /\ DbIssue(HandlerChain(Middleware(HttpSrc(i), "POST", "/api/logs",
                                                 HeadersOf(TRUE), parsed.val, now),
                                      <<ClientLogInsert(HttpSrc(i), parsed.val, later)>>))
             /\ reqs' = Append(reqs,
                   Respond([Received("POST", "/api/logs", raw, now)
                              EXCEPT !.at2 = later],
                           PostAnswer(parsed.val)))
  /\ HttpFrame

\* DELETE /api/logs: middleware, then db.run whose callback answers
DeleteLogs(now) ==
  /\ alive /\ clock' = now /\ Len(reqs) + Len(msgs) < MaxEvents
  /\ LET i == Len(reqs) + 1 IN
     /\ DbIssue(HandlerChain(Middleware(HttpSrc(i), "DELETE", "/api/logs",
                                         HeadersOf(TRUE), ExpressJson(<<>>).val, now),
                              <<DeleteStmt(HttpSrc(i))>>))
     /\ reqs' = Append(reqs, Received("DELETE", "/api/logs", <<>>, now))
  /\ HttpFrame

\* ------------------------------------------------------- WebSocket channel
\* the frames a client sends: JSON.stringify of its message, or other text
WsTexts ==
  {JSONstringify(Obj([type |-> Str("fingerprint"),
                      data |-> Obj([origin |-> Str("/login"),
                                    userAgent |-> Str("UA1")])])),
   JSONstringify(Obj([type |-> Str("fingerprint"),
                      data |-> Obj([userAgent |-> Str("UA1")])])),
   JSONstringify(Obj([type |-> Str("fingerprint")])),
   JSONstringify(Obj([type |-> Str("ping"),
                      data |-> Obj([origin |-> Str("/login")])])),
   <<"{", Q>>}

\* (variant: origin is not split out)
MutRestKeepsOrigin(d) == d

\* const { origin, ...data } = msg.data: the rest object
RestWithoutOrigin(d) == Obj([k \in (DOMAIN d.v) \ {"origin"} |-> d.v[k]])

\* the body of the try block of ws.on('message'): whether it threw, and the
\* statements it issued before that (msg.data is an object or missing in
\* the frames above)
WsTry(src, txt, now) ==
  LET p == JSONparse(txt)
      msg == p.val
      d == Get(msg, "data")
  IN IF ~p.ok THEN [threw |-> TRUE, stmts |-> <<>>]
     ELSE IF msg.t = "null" THEN [threw |-> TRUE, stmts |-> <<>>]
     ELSE IF ~(msg.t = "object" /\ Get(msg, "type").t = "string"
               /\ Get(msg, "type").v = "fingerprint")
          THEN [threw |-> FALSE, stmts |-> <<>>]
     ELSE IF d.t # "object" THEN [threw |-> TRUE, stmts |-> <<>>]
     ELSE [threw |-> FALSE,
           stmts |-> <<InsertStmt(src, "WS", BindParameter(Get(d, "origin")),
                                  JSONstringify(Obj(EmptyFn)),
                                  JSONstringify(RestWithoutOrigin(d)),
                                  toISOString(now))>>]

\* (variant: the handler echoes what it received)
MutWsReplyEcho(txt) == <<txt>>

\* the frames the message handler sends to the client: it never calls
\* ws.send
WsReply(txt) == <<>>

\* (variant: no try/catch, the exception ends the process)
MutNoCatch(threw) == ~threw

\* catch (e) { console.error(...) }: the exception goes no further
SurvivesMessage(threw) == TRUE

WsConnect(c) ==
  /\ alive /\ conns[c] = "idle"
  /\ conns' = [conns EXCEPT ![c] = "open"]
  /\ UNCHANGED <<clock, alive, rows, seq, pending, completed, issued,
                 accepted, executed, purged, failed, reqs, msgs>>

\* ws.on('message')
WsMessage(c, txt, now) ==
  /\ alive /\ clock' = now /\ conns[c] = "open" /\ Len(reqs) + Len(msgs) < MaxEvents
  /\ LET r == WsTry(WsSrc(Len(msgs) + 1), txt, now) IN
     /\ DbIssue(r.stmts)
     /\ alive' = SurvivesMessage(r.threw)
     /\ conns' = [conns EXCEPT ![c] = IF alive' THEN "open" ELSE "closed"]
     /\ msgs' = Append(msgs, [conn |-> c, text |-> txt, at |-> now,
                              threw |-> r.threw, open |-> conns'[c] = "open",
                              sent |-> WsReply(txt)])
  /\ UNCHANGED <<rows, seq, completed, accepted, executed, purged, failed,
                 reqs>>

\* the client closes its connection
WsClose(c) ==
  /\ alive /\ conns[c] = "open"
  /\ conns' = [conns EXCEPT ![c] = "closed"]
  /\ UNCHANGED <<clock, alive, rows, seq, pending, completed, issued,
                 accepted, executed, purged, failed, reqs, msgs>>

\* ------------------------------------------------------ database execution
\* the thread pool executes one issued statement
DbExec(op) ==
  /\ alive /\ op \in pending
  /\ pending' = pending \ {op}
  /\ executed' = Append(executed, op.k)
  /\ CASE op.kind = "insert" ->
            LET id == AutoIncrement(seq, rows) IN
            /\ rows' = InsertRow(rows, id, op.row)
            /\ seq' = id
            /\ accepted' = Append(accepted, [id |-> id, k |-> op.k,
                                             src |-> op.src, row |-> op.row])
            /\ UNCHANGED <<completed, purged>>
       [] op.kind = "delete" ->
            /\ rows' = DeleteFromLogs(rows)
            /\ seq' = SequenceAfterDelete(seq)
            /\ purged' = seq
            /\ completed' = completed \cup
                 {[k |-> op.k, src |-> op.src, kind |-> op.kind,
                   err |-> FALSE, rows |-> <<>>, floor |-> seq,
                   seen |-> Len(accepted)]}
            /\ UNCHANGED accepted
       [] op.kind = "select" ->
            /\ \E res \in SelectLogs(rows, op.hasStart, op.start,
                                     op.hasLimit, op.limit) :
                 completed' = completed \cup
                   {[k |-> op.k, src |-> op.src, kind |-> op.kind,
                     err |-> FALSE, rows |-> res, floor |-> purged,
                     seen |-> Len(accepted)]}
            /\ UNCHANGED <<rows, seq, accepted, purged>>
  /\ UNCHANGED <<clock, alive, issued, failed, reqs, conns, msgs>>

\* a statement fails (I/O error, disk full, lock timeout).  With a callback
\* the error is handed to it; db.run without a callback makes node-sqlite3
\* emit 'error' on the statement, which has no listener, and the process
\* ends with the unhandled 'error' event.
DbError(op) ==
  /\ alive /\ op \in pending /\ Cardinality(failed) < MaxFail
  /\ pending' = pending \ {op}
  /\ failed' = failed \cup {op.k}
  /\ executed' = Append(executed, op.k)
  /\ IF op.cb
     THEN /\ completed' = completed \cup
                {[k |-> op.k, src |-> op.src, kind |-> op.kind,
                  err |-> TRUE, rows |-> <<>>, floor |-> purged,
                  seen |-> Len(accepted)]}
          /\ UNCHANGED alive
     ELSE /\ alive' = FALSE
          /\ UNCHANGED completed
  /\ UNCHANGED <<clock, rows, seq, issued, accepted, purged, reqs, conns,
                 msgs>>

\* the callback of db.all / db.run('DELETE FROM logs') runs and answers
DbCallback(c) ==
  /\ alive /\ c \in completed
  /\ completed' = completed \ {c}
  /\ reqs' = [reqs EXCEPT ![c.src[2]] =
       [IF c.kind = "select" THEN Respond(@, QueryAnswer(c.err, c.rows))
        ELSE Respond(@, PurgeAnswer(c.err))
        EXCEPT !.floor = c.floor, !.seen = c.seen]]
  /\ UNCHANGED <<clock, alive, rows, seq, pending, issued, accepted,
                 executed, purged, failed, conns, msgs>>

\* the times a handler that starts now can read from new Date()
Times == clock..MaxClock

\* the times a second new Date() of a handler can give after a first gave t
TimesAfter(t) == t..MaxClock

Next ==
  \/ \E url \in PageUrls, now \in Times : GetPage(url, now)
  \/ \E url \in QueryUrls, now \in Times : GetLogs(url, now)
  \/ \E raw \in PostBodies, now \in Times :
       \E later \in TimesAfter(now) : PostLogs(raw, now, later)
  \/ \E now \in Times : DeleteLogs(now)
  \/ \E c \in Conns : WsConnect(c)
  \/ \E c \in Conns, txt \in WsTexts, now \in Times : WsMessage(c, txt, now)
  \/ \E c \in Conns : WsClose(c)
  \/ \E op \in pending : DbExec(op)
  \/ \E op \in pending : DbError(op)
  \/ \E c \in completed : DbCallback(c)

Spec == Init /\ [][Next]_vars

\* What the program's scheduling guarantees: the event loop runs the
\* callback of every statement the store has completed.  When, and whether,
\* the store completes a statement is not in the program's hands, and the
\* program sets no timer on its storage calls.
FairSpec == Spec /\ WF_vars(\E c \in completed : DbCallback(c))

\* ================================================================== claims
\* request i is a query that was answered with rows
AnsweredQuery(i) ==
  /\ reqs[i].method = "GET" /\ reqs[i].url \in QueryUrls
  /\ reqs[i].state = "done" /\ reqs[i].status = 200 /\ reqs[i].json = "rows"

\* the inserts that were in the table when the statement of request i ran
InTableAt(i) ==
  {accepted[p] : p \in {p \in 1..Len(accepted) :
                          p <= reqs[i].seen /\ accepted[p].id > reqs[i].floor}}

\* the store has executed the statements in the order of their issue
InIssueOrder == \A p \in 1..Len(executed) : executed[p] = p

\* C1: the ids the store assigns are unique and strictly increasing in the
\* order in which the store accepted the inserts, whichever handler issued
\* them and in whatever order they were issued.
C1_IdsStrictlyIncreasing ==
  \A p, q \in 1..Len(accepted) : p < q => accepted[p].id < accepted[q].id

\* C1 witness: an insert accepted after a purge that removed rows, and two
\* inserts accepted in the opposite of their issue order.
C1_Witness ==
  /\ purged > 0
  /\ \E p \in 1..Len(accepted) : accepted[p].id > purged
  /\ \E p, q \in 1..Len(accepted) : p < q /\ accepted[p].k > accepted[q].k

\* C2: a query with an integer limit N answers with at most N records, and
\* its records are in descending order of timestamp.
C2_LimitCapsAndSorts ==
  \A i \in 1..Len(reqs) :
    (AnsweredQuery(i) /\ ReqQuery(reqs[i].url).limit.t = "string"
       /\ parseInt(ReqQuery(reqs[i].url).limit).t = "number") =>
      /\ Len(reqs[i].rows) <= parseInt(ReqQuery(reqs[i].url).limit).v
      /\ \A a, b \in 1..Len(reqs[i].rows) :
           a < b => TextLeq(reqs[i].rows[b].timestamp, reqs[i].rows[a].timestamp)

\* C3: a query with startTime T answers only with records whose timestamp
\* is >= T.
C3_StartTimeLowerBound ==
  \A i \in 1..Len(reqs) :
    (AnsweredQuery(i) /\ ReqQuery(reqs[i].url).startTime.t = "string") =>
      \A a \in 1..Len(reqs[i].rows) :
        /\ reqs[i].rows[a].timestamp # SqlNull
        /\ TextLeq(ReqQuery(reqs[i].url).startTime.v, reqs[i].rows[a].timestamp)

\* C3 witness: a query with startTime was answered with a record, while the
\* table held a record with an earlier timestamp, which the answer leaves out.
C3_Witness ==
  \E i \in 1..Len(reqs) :
    /\ AnsweredQuery(i) /\ ReqQuery(reqs[i].url).startTime.t = "string"
    /\ reqs[i].rows # <<>>
    /\ \E a \in InTableAt(i) :
         /\ ~TextLeq(ReqQuery(reqs[i].url).startTime.v, a.row.timestamp)
         /\ \A b \in 1..Len(reqs[i].rows) : reqs[i].rows[b].id # a.id

\* C4 as stated: a query that arrives after a purge was answered with
\* success is answered with an empty collection.  (Stated for the runs in
\* which the store executes the statements in the order of their issue, so
\* that a violation owes nothing to the order the thread pool picks.)
C4_PurgeThenQueryEmpty ==
  \A i \in 1..Len(reqs) :
    (AnsweredQuery(i) /\ reqs[i].afterPurge /\ InIssueOrder) =>
      reqs[i].rows = <<>>

\* C4 amended: a query executed after a purge returns no record that the
\* store had accepted before the purge was executed; the records it does
\* return were inserted after the purge.
C4_PurgeThenQueryOnlyNewer ==
  \A i \in 1..Len(reqs) :
    AnsweredQuery(i) =>
      \A a \in 1..Len(reqs[i].rows) :
        /\ reqs[i].rows[a].id > reqs[i].floor
        /\ \A p \in 1..Len(accepted) :
             accepted[p].id <= reqs[i].floor =>
               accepted[p].id # reqs[i].rows[a].id

\* C4 witness: a purge removed at least one record and was answered, a query
\* arrived after that and was answered with a record.
C4_Witness ==
  \E i \in 1..Len(reqs) :
    /\ AnsweredQuery(i) /\ reqs[i].afterPurge
    /\ reqs[i].floor > 0 /\ reqs[i].rows # <<>>

\* the issue numbers of the statements that source src issued
StmtsOf(src) == {k \in 1..Len(issued) : issued[k].src = src}

\* among them, the inserts of a record with the given method
InsertsOf(src, method) ==
  {k \in StmtsOf(src) :
     issued[k].kind = "insert" /\ issued[k].row.method = method}

\* the accepted inserts that statement k led to
AcceptedOf(k) == {p \in 1..Len(accepted) : accepted[p].k = k}

\* text is the JSON text of an object that has exactly the members of
\* object function f, but for the member named without
ParsesToAllBut(text, f, without) ==
  /\ JSONparse(text).ok /\ JSONparse(text).val.t = "object"
  /\ DOMAIN JSONparse(text).val.v = (DOMAIN f) \ {without}
  /\ \A k \in (DOMAIN f) \ {without} : JSONparse(text).val.v[k] = f[k]

\* the object a client posted in request i
Posted(i) == JSONparse(reqs[i].raw).val

\* the data object of the fingerprint message j (undefined if there is none)
FpData(j) ==
  IF JSONparse(msgs[j].text).ok /\ JSONparse(msgs[j].text).val.t = "object"
  THEN Get(JSONparse(msgs[j].text).val, "data") ELSE Undef

\* message j is a fingerprint message whose data carries an origin
IsFingerprint(j) ==
  /\ JSONparse(msgs[j].text).ok /\ JSONparse(msgs[j].text).val.t = "object"
  /\ Get(JSONparse(msgs[j].text).val, "type") = Str("fingerprint")
  /\ FpData(j).t = "object" /\ Get(FpData(j), "origin").t = "string"

\* record r carries what the writer of the accepted insert a supplied
RoundTrip(r, a) ==
  IF a.src[1] = "ws"
  THEN /\ r.method = "WS"
       /\ Get(FpData(a.src[2]), "origin").t = "string" =>
            r.url = Get(FpData(a.src[2]), "origin").v
       /\ ParsesToAllBut(r.body, FpData(a.src[2]).v, "origin")
       /\ r.timestamp = toISOString(msgs[a.src[2]].at)
  ELSE IF a.row.method = "CLIENT_LOG"
  THEN /\ r.method = "CLIENT_LOG" /\ r.url = "/api/logs"
       /\ JSONparse(r.body).ok
       /\ \A k \in {"message", "data", "timestamp"} :
            Get(JSONparse(r.body).val, k) = Get(Posted(a.src[2]), k)
       /\ r.timestamp = IF Get(Posted(a.src[2]), "timestamp").t = "string"
                        THEN Get(Posted(a.src[2]), "timestamp").v
                        ELSE toISOString(reqs[a.src[2]].at2)
  ELSE /\ r.method = reqs[a.src[2]].method /\ r.url = reqs[a.src[2]].url
       /\ IF reqs[a.src[2]].raw = <<>> THEN r.body = <<>>
          ELSE JSONparse(r.body).ok /\ JSONparse(r.body).val = Posted(a.src[2])
       /\ r.timestamp = toISOString(reqs[a.src[2]].at)

\* C5: a record written through the middleware, the client-log POST or a
\* fingerprint message is returned, once, by every unfiltered query that the
\* store executes later (no purge in between), with the method, url, body
\* (compared after JSON.parse) and timestamp that its writer supplied.
C5_RoundTrip ==
  \A i \in 1..Len(reqs) :
    (AnsweredQuery(i) /\ reqs[i].url = "/api/logs") =>
      \A a \in InTableAt(i) :
        /\ Cardinality({b \in 1..Len(reqs[i].rows) :
                          reqs[i].rows[b].id = a.id}) = 1
        /\ \A b \in 1..Len(reqs[i].rows) :
             reqs[i].rows[b].id = a.id => RoundTrip(reqs[i].rows[b], a)

\* C5 witness: an unfiltered query was answered with the two records of a
\* client-log POST, the middleware's with a body and the CLIENT_LOG one.
C5_Witness ==
  \E i \in 1..Len(reqs) :
    /\ AnsweredQuery(i) /\ reqs[i].url = "/api/logs"
    /\ \E a, b \in 1..Len(reqs[i].rows) :
         /\ reqs[i].rows[a].method = "CLIENT_LOG"
         /\ reqs[i].rows[b].method = "POST" /\ reqs[i].rows[b].body # <<>>

\* C6: every HTTP request that was received has had exactly one record
\* issued to the store with its method and its url.
C6_EveryRequestLoggedOnce ==
  \A i \in 1..Len(reqs) :
    Cardinality({k \in InsertsOf(HttpSrc(i), reqs[i].method) :
                   issued[k].row.url = reqs[i].url}) = 1

\* the insert that the middleware issued for request i has failed
MiddlewareWriteFailed(i) ==
  \E k \in InsertsOf(HttpSrc(i), reqs[i].method) : k \in failed

\* C7: a failing write of the middleware does not keep its request from
\* being answered: while the request waits for its answer the server is
\* there to give it, and the answer is not an error.
C7_WriteFailureNeverFailsRequest ==
  \A i \in 1..Len(reqs) :
    MiddlewareWriteFailed(i) =>
      /\ reqs[i].state = "waiting" => alive
      /\ reqs[i].state = "done" => reqs[i].status # 500

\* C8: a fingerprint message whose data carries an origin leads to exactly
\* one record: method "WS", url the origin, headers "{}", and a body that
\* parses to the other fields of data, without origin.
C8_FingerprintRecord ==
  \A j \in 1..Len(msgs) :
    IsFingerprint(j) =>
      /\ Cardinality(StmtsOf(WsSrc(j))) = 1
      /\ \A k \in StmtsOf(WsSrc(j)) :
           /\ issued[k].kind = "insert"
           /\ issued[k].row.method = "WS"
           /\ issued[k].row.url = Get(FpData(j), "origin").v
           /\ issued[k].row.headers = <<"{", "}">>
           /\ ParsesToAllBut(issued[k].row.body, FpData(j).v, "origin")
           /\ Cardinality(AcceptedOf(k)) <= 1
           /\ \A p \in AcceptedOf(k) :
                /\ accepted[p].row = issued[k].row
                /\ accepted[p].id > purged =>
                     \E b \in 1..Len(rows) :
                       rows[b] = [id |-> accepted[p].id] @@ issued[k].row

\* C8 witness: the record of a fingerprint message with origin and userAgent
\* is in the table.
C8_Witness ==
  \E j \in 1..Len(msgs), b \in 1..Len(rows) :
    /\ IsFingerprint(j) /\ "userAgent" \in DOMAIN FpData(j).v
    /\ rows[b].method = "WS"
    /\ \E p \in 1..Len(accepted) :
         accepted[p].src = WsSrc(j) /\ accepted[p].id = rows[b].id

\* C9: a message that is not JSON issues no statement and leaves the
\* connection open and the server running; a fingerprint message that comes
\* later on the same connection has its insert issued.
C9_BadMessageIgnored ==
  \A j \in 1..Len(msgs) :
    ~JSONparse(msgs[j].text).ok =>
      /\ StmtsOf(WsSrc(j)) = {}
      /\ msgs[j].open
      /\ \A l \in 1..Len(msgs) :
           (j < l /\ msgs[l].conn = msgs[j].conn /\ IsFingerprint(l)) =>
             Cardinality(InsertsOf(WsSrc(l), "WS")) = 1

\* C9 witness: after a message that is not JSON, a fingerprint message on
\* the same connection has its record in the table.
C9_Witness ==
  \E j, l \in 1..Len(msgs) :
    /\ j < l /\ msgs[l].conn = msgs[j].conn
    /\ ~JSONparse(msgs[j].text).ok /\ IsFingerprint(l)
    /\ \E p \in 1..Len(accepted), b \in 1..Len(rows) :
         accepted[p].src = WsSrc(l) /\ rows[b].id = accepted[p].id

\* request i is an accepted client-log POST with type and message, no data
PostWithoutData(i) ==
  /\ reqs[i].method = "POST" /\ reqs[i].status = 200
  /\ {"type", "message"} \subseteq DOMAIN Posted(i).v
  /\ "data" \notin DOMAIN Posted(i).v

\* C10: a client-log POST with type and message and no data leads to one
\* record with method "CLIENT_LOG" and url "/api/logs" whose body parses to
\* an object in which data is absent or null.
C10_ClientLogWithoutData ==
  \A i \in 1..Len(reqs) :
    PostWithoutData(i) =>
      /\ Cardinality(InsertsOf(HttpSrc(i), "CLIENT_LOG")) = 1
      /\ \A k \in InsertsOf(HttpSrc(i), "CLIENT_LOG") :
           /\ issued[k].row.url = "/api/logs"
           /\ JSONparse(issued[k].row.body).ok
           /\ JSONparse(issued[k].row.body).val.t = "object"
           /\ Get(JSONparse(issued[k].row.body).val, "data").t
                \in {"undefined", "null"}
           /\ Cardinality(AcceptedOf(k)) <= 1
           /\ \A p \in AcceptedOf(k) : accepted[p].row = issued[k].row

\* C10 witness: the CLIENT_LOG record of such a POST is in the table.
C10_Witness ==
  \E i \in 1..Len(reqs), b \in 1..Len(rows) :
    /\ PostWithoutData(i) /\ rows[b].method = "CLIENT_LOG"
    /\ \E p \in 1..Len(accepted) :
         accepted[p].src = HttpSrc(i) /\ accepted[p].id = rows[b].id

\* the statement of the given kind that request i issued has failed
StmtFailed(i, kind) ==
  \E k \in StmtsOf(HttpSrc(i)) : issued[k].kind = kind /\ k \in failed

\* the object in the JSON body of the response to request i
ResBody(i) == JSONparse(reqs[i].body).val

\* request i was answered with a JSON object
HasResBody(i) ==
  /\ reqs[i].state = "done"
  /\ JSONparse(reqs[i].body).ok /\ JSONparse(reqs[i].body).val.t = "object"

\* C11: a query whose storage call failed is answered with status 500 and
\* an error object, never with a collection of rows; so an answer with rows
\* (empty or not) is always the result of a storage call that succeeded.
C11_QueryFailureIsServerError ==
  \A i \in 1..Len(reqs) :
    (reqs[i].method = "GET" /\ reqs[i].url \in QueryUrls
       /\ reqs[i].state = "done") =>
      IF StmtFailed(i, "select")
      THEN /\ reqs[i].status = 500 /\ reqs[i].json # "rows"
           /\ HasResBody(i) /\ Get(ResBody(i), "error").t = "string"
      ELSE reqs[i].status = 200 /\ reqs[i].json = "rows"

\* C11 witness: a query whose db.all failed has been answered.
C11_Witness ==
  \E i \in 1..Len(reqs) :
    /\ reqs[i].method = "GET" /\ reqs[i].url \in QueryUrls
    /\ StmtFailed(i, "select") /\ reqs[i].state = "done"

\* C12: a client-log POST whose CLIENT_LOG insert was handed to the store
\* is answered {success: true} with status 200, and stays so whatever
\* becomes of the insert.
C12_ClientLogAlwaysAcknowledged ==
  \A i \in 1..Len(reqs) :
    InsertsOf(HttpSrc(i), "CLIENT_LOG") # {} =>
      /\ reqs[i].state = "done" /\ reqs[i].status = 200
      /\ HasResBody(i) /\ DOMAIN ResBody(i).v = {"success"}
      /\ Get(ResBody(i), "success") = Bool(TRUE)

\* C12 witness: the CLIENT_LOG insert of an acknowledged POST has failed.
C12_Witness ==
  \E i \in 1..Len(reqs) :
    /\ \E k \in InsertsOf(HttpSrc(i), "CLIENT_LOG") : k \in failed
    /\ reqs[i].status = 200

\* request i is a purge that was answered
AnsweredPurge(i) == reqs[i].method = "DELETE" /\ reqs[i].state = "done"

\* the answer to a purge that succeeded: {success: true, message}
PurgeSuccessAnswer(i) ==
  /\ reqs[i].status = 200 /\ HasResBody(i)
  /\ Get(ResBody(i), "success") = Bool(TRUE)
  /\ Get(ResBody(i), "message").t = "string"

\* C13 as stated: a purge answers {success: true, message} when the delete
\* succeeded and a server error {success: false, error} when it failed.
C13_PurgeResponses ==
  \A i \in 1..Len(reqs) :
    AnsweredPurge(i) =>
      IF StmtFailed(i, "delete")
      THEN /\ reqs[i].status = 500 /\ HasResBody(i)
           /\ Get(ResBody(i), "success") = Bool(FALSE)
           /\ Get(ResBody(i), "error").t = "string"
      ELSE PurgeSuccessAnswer(i)

\* C13 amended: a purge answers {success: true, message} when the delete
\* succeeded; when it failed it answers with status 500 and {error}, an
\* object with no success member, so the two are distinct.
C13_PurgeFailureIsServerError ==
  \A i \in 1..Len(reqs) :
    AnsweredPurge(i) =>
      IF StmtFailed(i, "delete")
      THEN /\ reqs[i].status = 500 /\ HasResBody(i)
           /\ DOMAIN ResBody(i).v = {"error"}
           /\ Get(ResBody(i), "error").t = "string"
      ELSE PurgeSuccessAnswer(i)

\* C13 witness: a purge whose delete failed has been answered.
C13_Witness ==
  \E i \in 1..Len(reqs) : AnsweredPurge(i) /\ StmtFailed(i, "delete")

\* C14: a failure of the store never ends the process: once a statement
\* has failed, on a write path or on a read path, the server still runs.
C14_NoErrorPathCrashes == failed # {} => alive

\* C15: the store applies the inserts in the order in which the handlers
\* issued them: of two accepted inserts, the one issued first has the
\* smaller id, whichever sources issued them.
C15_IdsFollowIssueOrder ==
  \A p, q \in 1..Len(accepted) :
    accepted[p].k < accepted[q].k => accepted[p].id < accepted[q].id

\* the SELECT that request i issued
SelectOf(i) ==
  issued[CHOOSE k \in StmtsOf(HttpSrc(i)) : issued[k].kind = "select"]

\* the records of the table, at the instant the SELECT of request i ran,
\* that its WHERE clause lets through
HitsAt(i) ==
  {a \in InTableAt(i) :
     SelectOf(i).hasStart =>
       WhereTimestampGeq(a.row.timestamp, SelectOf(i).start)}

\* the number of rows LIMIT leaves of n rows, for the SELECT of request i
Capped(i, n) ==
  IF SelectOf(i).hasLimit /\ SelectOf(i).limit >= 0 /\ SelectOf(i).limit < n
  THEN SelectOf(i).limit ELSE n

\* C16: the answer to a query is taken from the table as it was at one
\* single instant, not before the request arrived: every row of the answer
\* is a whole record of the table at that instant, no record appears twice,
\* the answer has all the records that pass the filter (the first N with a
\* limit N), and every insert or purge the store had applied when the
\* request arrived is reflected; the table never holds an id twice.
C16_ConsistentSnapshot ==
  /\ \A b, d \in 1..Len(rows) : b # d => rows[b].id # rows[d].id
  /\ \A i \in 1..Len(reqs) :
       AnsweredQuery(i) =>
         /\ reqs[i].seen >= reqs[i].seen0 /\ reqs[i].floor >= reqs[i].floor0
         /\ Len(reqs[i].rows) = Capped(i, Cardinality(HitsAt(i)))
         /\ \A b, d \in 1..Len(reqs[i].rows) :
              b # d => reqs[i].rows[b].id # reqs[i].rows[d].id
         /\ \A b \in 1..Len(reqs[i].rows) :
              \E a \in HitsAt(i) : reqs[i].rows[b] = [id |-> a.id] @@ a.row

\* C16 witness: a query that arrived before a purge and before an insert
\* was applied, and was executed after both, answered with what was there.
C16_Witness ==
  \E i \in 1..Len(reqs) :
    /\ AnsweredQuery(i) /\ reqs[i].rows # <<>>
    /\ reqs[i].floor > reqs[i].floor0 /\ reqs[i].seen > reqs[i].seen0

\* C17: in the answer to a query, the records that have the same timestamp
\* are in the order of their ids, ascending; so one content of the table
\* gives one order of the answer.
C17_TieBreakById ==
  \A i \in 1..Len(reqs) :
    AnsweredQuery(i) =>
      \A a, b \in 1..Len(reqs[i].rows) :
        (a < b /\ reqs[i].rows[a].timestamp = reqs[i].rows[b].timestamp)
          => reqs[i].rows[a].id < reqs[i].rows[b].id

\* C17 witness: a query was answered with three records of one timestamp.
C17_Witness ==
  \E i \in 1..Len(reqs) :
    /\ AnsweredQuery(i) /\ Len(reqs[i].rows) = 3
    /\ \A a, b \in 1..3 : reqs[i].rows[a].timestamp = reqs[i].rows[b].timestamp

\* C18: the table holds exactly the records accepted since the last purge,
\* each with the id and the method, url, headers, body and timestamp it was
\* inserted with; the records accepted before the purge are all gone.
C18_RecordsImmutable ==
  /\ Len(rows) = Cardinality({p \in 1..Len(accepted) : accepted[p].id > purged})
  /\ \A b \in 1..Len(rows) :
       \E p \in 1..Len(accepted) :
         /\ accepted[p].id > purged
         /\ rows[b] = [id |-> accepted[p].id] @@ accepted[p].row
  /\ \A b, d \in 1..Len(rows) : b < d => rows[b].id < rows[d].id

\* C18 witness: a purge removed a record, and after it an insert was applied
\* to a table that holds an older record with the same url.
C18_Witness ==
  /\ Len(accepted) > Len(rows)
  /\ \E b, d \in 1..Len(rows) : b < d /\ rows[b].url = rows[d].url

\* C19: the body of a CLIENT_LOG record is an envelope whose timestamp
\* member equals the timestamp column of the record.
C19_EnvelopeTimestampIsColumn ==
  \A p \in 1..Len(accepted) :
    accepted[p].row.method = "CLIENT_LOG" =>
      /\ JSONparse(accepted[p].row.body).ok
      /\ Get(JSONparse(accepted[p].row.body).val, "timestamp")
           = Str(accepted[p].row.timestamp)

\* the fixed-width ISO-8601 strings among the strings of TextOrder
IsIso8601(s) == s \in Range(IsoStrings) \cup {"2025-12-31T23:59:59.000Z"}

\* C20: the timestamp of every record the store accepted, from any of the
\* three write paths, is a fixed-width ISO-8601 string.
C20_TimestampsAreIso ==
  \A p \in 1..Len(accepted) : IsIso8601(accepted[p].row.timestamp)

\* request i is a query that waits for its answer
QueryWaiting(i) ==
  /\ i <= Len(reqs) /\ reqs[i].method = "GET" /\ reqs[i].url \in QueryUrls
  /\ reqs[i].state = "waiting"

\* request i has been answered
RequestDone(i) == i <= Len(reqs) /\ reqs[i].state = "done"

\* C21: every query request is eventually answered, also when the store
\* never completes the storage call of the query.
C21_QueryEventuallyAnswered ==
  \A i \in 1..MaxEvents : [](QueryWaiting(i) => <>RequestDone(i))

\* message j parsed to an object whose type is "fingerprint"
TypeIsFingerprint(j) ==
  /\ JSONparse(msgs[j].text).ok /\ JSONparse(msgs[j].text).val.t = "object"
  /\ Get(JSONparse(msgs[j].text).val, "type") = Str("fingerprint")

\* C22: a message on the streaming channel issues at most one statement,
\* an insert, and none when it is not JSON or its type is not
\* "fingerprint"; the server sends no frame to the client for any message.
C22_AtMostOneWriteNoReply ==
  \A j \in 1..Len(msgs) :
    /\ Cardinality(StmtsOf(WsSrc(j))) <= 1
    /\ \A k \in StmtsOf(WsSrc(j)) : issued[k].kind = "insert"
    /\ ~TypeIsFingerprint(j) => StmtsOf(WsSrc(j)) = {}
    /\ Cardinality({p \in 1..Len(accepted) : accepted[p].src = WsSrc(j)}) <= 1
    /\ msgs[j].sent = <<>>

\* C22 witness: a fingerprint message whose record is in the table, and a
\* message of another type, both handled.
C22_Witness ==
  \E j, l \in 1..Len(msgs) :
    /\ TypeIsFingerprint(j) /\ \E b \in 1..Len(rows) : rows[b].method = "WS"
    /\ JSONparse(msgs[l].text).ok /\ ~TypeIsFingerprint(l)

\* the limit parameter of request i is absent or is not a number
NoNumericLimit(i) ==
  \/ ReqQuery(reqs[i].url).limit.t = "undefined"
  \/ parseInt(ReqQuery(reqs[i].url).limit).t = "NaN"

\* C23: a query whose limit is absent or not a number is answered with
\* every record of the table that passes the startTime filter.
C23_NoLimitMeansNoCap ==
  \A i \in 1..Len(reqs) :
    (AnsweredQuery(i) /\ NoNumericLimit(i)) =>
      {reqs[i].rows[b].id : b \in 1..Len(reqs[i].rows)}
        = {a.id : a \in {a \in InTableAt(i) :
               ReqQuery(reqs[i].url).startTime.t = "string" =>
                 WhereTimestampGeq(a.row.timestamp,
                                   ReqQuery(reqs[i].url).startTime.v)}}

\* C23 witness: a query with limit=abc was answered with three records.
C23_Witness ==
  \E i \in 1..Len(reqs) :
    /\ AnsweredQuery(i) /\ reqs[i].url = "/api/logs?limit=abc"
    /\ Len(reqs[i].rows) = 3

\* request i is a client-log POST whose body is a JSON object
ClientLogPost(i) ==
  /\ reqs[i].method = "POST" /\ JSONparse(reqs[i].raw).ok
  /\ JSONparse(reqs[i].raw).val.t = "object"

\* C24: a client-log POST that lacks data or timestamp is answered with
\* success and its CLIENT_LOG record is issued to the store; a fingerprint
\* message that lacks data or origin has its WS record issued to the store.
C24_MissingFieldsPermitted ==
  /\ \A i \in 1..Len(reqs) :
       ClientLogPost(i) =>
         /\ reqs[i].status = 200
         /\ Cardinality(InsertsOf(HttpSrc(i), "CLIENT_LOG")) = 1
  /\ \A j \in 1..Len(msgs) :
       TypeIsFingerprint(j) => Cardinality(InsertsOf(WsSrc(j), "WS")) = 1

\* the issue number of the statement of the given kind that request i issued
StmtOf(i, kind) == CHOOSE k \in StmtsOf(HttpSrc(i)) : issued[k].kind = kind

\* C25: a query with startTime T and limit N is answered with exactly the
\* first N records of the timestamp-descending list of the records with
\* timestamp >= T: N of them (all, if there are fewer), in descending
\* order, none of them older than a matching record left out; and with an
\* empty array when none matches.
C25_LimitAfterFilter ==
  \A i \in 1..Len(reqs) :
    (reqs[i].method = "GET" /\ reqs[i].url \in QueryUrls
       /\ reqs[i].state = "done" /\ ~StmtFailed(i, "select")
       /\ ReqQuery(reqs[i].url).startTime.t = "string"
       /\ ReqQuery(reqs[i].url).limit.t = "string"
       /\ parseInt(ReqQuery(reqs[i].url).limit).t = "number") =>
      LET N == parseInt(ReqQuery(reqs[i].url).limit).v
          T == ReqQuery(reqs[i].url).startTime.v
          hits == {a \in InTableAt(i) : WhereTimestampGeq(a.row.timestamp, T)}
          got == {reqs[i].rows[b].id : b \in 1..Len(reqs[i].rows)}
      IN /\ reqs[i].status = 200 /\ reqs[i].json = "rows"
         /\ Len(reqs[i].rows) = IF N < Cardinality(hits) THEN N
                                 ELSE Cardinality(hits)
         /\ Cardinality(got) = Len(reqs[i].rows)
         /\ got \subseteq {a.id : a \in hits}
         /\ \A a, b \in 1..Len(reqs[i].rows) :
              a < b => TextLeq(reqs[i].rows[b].timestamp,
                               reqs[i].rows[a].timestamp)
         /\ \A a \in hits, b \in 1..Len(reqs[i].rows) :
              a.id \notin got => TextLeq(a.row.timestamp,
                                         reqs[i].rows[b].timestamp)

\* C26: no id is assigned twice, before or after a purge: the ids of all
\* accepted inserts are distinct, and every record now in the table has an
\* id greater than every id assigned before the last purge.
C26_IdsNotReusedAcrossPurge ==
  /\ Cardinality({accepted[p].id : p \in 1..Len(accepted)}) = Len(accepted)
  /\ \A p \in 1..Len(accepted) : accepted[p].id <= seq
  /\ \A b \in 1..Len(rows) : rows[b].id > purged

\* C26 witness: a purge removed records and a record was inserted after it.
C26_Witness == purged > 0 /\ rows # <<>> /\ Len(accepted) > Len(rows)

\* request i is a query with no startTime and no numeric limit
PlainQuery(i) ==
  /\ reqs[i].method = "GET" /\ reqs[i].url \in QueryUrls
  /\ ReqQuery(reqs[i].url).startTime.t = "undefined" /\ NoNumericLimit(i)

\* the answer to request i holds the record of accepted insert p
Returns(i, p) ==
  \E b \in 1..Len(reqs[i].rows) :
    reqs[i].rows[b] = [id |-> accepted[p].id] @@ accepted[p].row

\* C27: every query request has one insert issued for it, of a record with
\* method "GET" and the url of the request, before its SELECT, and the
\* store accepts at most one record for it; when the store executes the
\* statements in the order of their issue, the answer to a query with no
\* filter and no cap holds the record of the query request itself.
C27_QueryLogsItself ==
  \A i \in 1..Len(reqs) :
    (reqs[i].method = "GET" /\ reqs[i].url \in QueryUrls) =>
      /\ Cardinality(StmtsOf(HttpSrc(i))) = 2
      /\ Cardinality(InsertsOf(HttpSrc(i), "GET")) = 1
      /\ \A k \in InsertsOf(HttpSrc(i), "GET") :
           /\ issued[k].row.url = reqs[i].url
           /\ k < StmtOf(i, "select")
           /\ Cardinality(AcceptedOf(k)) <= 1
           /\ (AnsweredQuery(i) /\ PlainQuery(i) /\ InIssueOrder) =>
                \E p \in AcceptedOf(k) : Returns(i, p)

\* C27 witness: a query with no filter and no cap, executed in issue
\* order, was answered with its own record and an older one.
C27_Witness ==
  \E i \in 1..Len(reqs) :
    /\ AnsweredQuery(i) /\ PlainQuery(i) /\ InIssueOrder
    /\ Len(reqs[i].rows) >= 2
    /\ \E k \in InsertsOf(HttpSrc(i), "GET") :
         \E p \in AcceptedOf(k) : Returns(i, p)

\* C28: an accepted client-log POST has exactly two statements issued, both
\* inserts: first a record with method "POST" and url "/api/logs" whose
\* body is the request body with its type, then a record with method
\* "CLIENT_LOG" whose body has no type; the store accepts each at most once.
C28_PostWritesTwoRecords ==
  \A i \in 1..Len(reqs) :
    ClientLogPost(i) =>
      /\ Cardinality(StmtsOf(HttpSrc(i))) = 2
      /\ Cardinality(InsertsOf(HttpSrc(i), "POST")) = 1
      /\ Cardinality(InsertsOf(HttpSrc(i), "CLIENT_LOG")) = 1
      /\ \A k \in InsertsOf(HttpSrc(i), "POST"),
            l \in InsertsOf(HttpSrc(i), "CLIENT_LOG") :
           /\ k < l
           /\ issued[k].row.url = "/api/logs"
           /\ JSONparse(issued[k].row.body).ok
           /\ JSONparse(issued[k].row.body).val = Posted(i)
           /\ "type" \in DOMAIN JSONparse(issued[k].row.body).val.v
           /\ JSONparse(issued[l].row.body).ok
           /\ "type" \notin DOMAIN JSONparse(issued[l].row.body).val.v
           /\ Cardinality(AcceptedOf(k)) <= 1 /\ Cardinality(AcceptedOf(l)) <= 1

\* C28 witness: the table holds the two records of one client-log POST.
C28_Witness ==
  \E i \in 1..Len(reqs), b, d \in 1..Len(rows) :
    /\ ClientLogPost(i)
    /\ rows[b].method = "POST" /\ rows[d].method = "CLIENT_LOG"
    /\ \E p, q \in 1..Len(accepted) :
         /\ accepted[p].src = HttpSrc(i) /\ accepted[p].id = rows[b].id
         /\ accepted[q].src = HttpSrc(i) /\ accepted[q].id = rows[d].id

\* the purge request i is being answered with success in this step, the
\* store has executed the statements in the order of their issue, and no
\* statement was issued after the DELETE FROM logs of the request
PurgeAloneReportsSuccess(i) ==
  /\ reqs[i].method = "DELETE" /\ reqs[i].state = "waiting"
  /\ reqs'[i].state = "done" /\ reqs'[i].status = 200
  /\ InIssueOrder /\ Len(issued) = StmtOf(i, "delete")

\* C29: the insert of the record of a purge request is issued before the
\* DELETE FROM logs of that request; and when a purge that was alone,
\* executed in issue order, reports success, the table is empty.
C29_PurgeLeavesEmptyStore ==
  [][/\ \A i \in 1..Len(reqs) :
          reqs[i].method = "DELETE" =>
            /\ Cardinality(InsertsOf(HttpSrc(i), "DELETE")) = 1
            /\ \A k \in InsertsOf(HttpSrc(i), "DELETE") :
                 k < StmtOf(i, "delete")
     /\ \A i \in 1..Len(reqs) :
          PurgeAloneReportsSuccess(i) => rows = <<>> /\ rows' = <<>>]_vars

\* C29 witness: a purge that was alone, executed in issue order, has
\* reported success after removing an older record and its own.
C29_Witness ==
  \E i \in 1..Len(reqs) :
    /\ reqs[i].method = "DELETE" /\ reqs[i].state = "done"
    /\ reqs[i].status = 200 /\ reqs[i].floor >= 2
    /\ InIssueOrder /\ Len(issued) = StmtOf(i, "delete") /\ rows = <<>>

\* the place of statement k in the order of execution
ExecutedAt(k) == CHOOSE p \in 1..Len(executed) : executed[p] = k

\* C30: a record in the answer to a query with no filter and no cap is, as
\* it was, in the answer to every such query that the store executes later,
\* as long as no purge is executed in between.
C30_StoreOnlyGrows ==
  \A i, j \in 1..Len(reqs) :
    (AnsweredQuery(i) /\ PlainQuery(i) /\ AnsweredQuery(j) /\ PlainQuery(j)
       /\ ExecutedAt(StmtOf(i, "select")) < ExecutedAt(StmtOf(j, "select"))
       /\ reqs[j].floor = reqs[i].floor) =>
      \A b \in 1..Len(reqs[i].rows) :
        \E d \in 1..Len(reqs[j].rows) : reqs[j].rows[d] = reqs[i].rows[b]

\* C30 witness: two such queries, the later with the record the earlier
\* returned and with one more.
C30_Witness ==
  \E i, j \in 1..Len(reqs) :
    /\ AnsweredQuery(i) /\ PlainQuery(i) /\ AnsweredQuery(j) /\ PlainQuery(j)
    /\ ExecutedAt(StmtOf(i, "select")) < ExecutedAt(StmtOf(j, "select"))
    /\ reqs[i].rows # <<>> /\ Len(reqs[j].rows) > Len(reqs[i].rows)

====
